---- MODULE Spec2Model ----
(***************************************************************************)
(* Model of tracker.py: the persisted ATH cache (load_cache, save_cache,   *)
(* get_cached_ath), the price fetcher (get_current_price), the change      *)
(* calculators and the asset loop of main.                                 *)
(*                                                                         *)
(* Time is counted in seconds.  Prices are positive integers; a missing    *)
(* value of a Provider series (NaN) is the value NaN below.                *)
(***************************************************************************)
EXTENDS Integers, Sequences, FiniteSets, TLC

\* ---------------------------------------------------------------- bounds
MaxPrice == 2          \* Provider prices range over 1..MaxPrice
MaxBars == 2           \* longest series the Provider answers with
MaxObs == 4            \* longest daily series handed to the change calculators
MaxDays == 4           \* largest lookback handed to the change calculators

\* ------------------------------------------------------ program constants
NumTickers == 3        \* the asset list of main
FRESH_DAYS == 7        \* staleness threshold of get_cached_ath
ATTEMPTS == 2          \* intraday attempts of get_current_price
SLEEP_SECONDS == 2     \* backoff of get_current_price
DAY == 86400           \* seconds per day (timedelta.days)
T0 == 691200           \* the instant the run starts (8 days after instant 0)

NaN == 0 - 1           \* a missing observation of a Provider series
Prices == 1..MaxPrice
Tickers == 1..NumTickers

\* ---------------------------------------------------------------- helpers
SetMax(S) == CHOOSE x \in S : \A y \in S : y <= x

\* A Provider answer: one column of the returned frame, oldest first.
RawSeries == UNION {[1..n -> Prices \cup {NaN}] : n \in 0..MaxBars}

\* Series.dropna()
dropna(s) == SelectSeq(s, LAMBDA x : x # NaN)

\* is_empty that takes a single observation for none.
is_empty_below_two(s) == Len(s) < 2

\* Series.empty, DataFrame.empty
is_empty(s) == Len(s) = 0

\* Series.max(): NaN values are skipped, and the maximum of nothing is NaN.
series_max(s) ==
    LET vals == {s[k] : k \in 1..Len(s)} \ {NaN}
    IN  IF vals = {} THEN NaN ELSE SetMax(vals)

\* Python's max(a, b): b wins only when b > a, and no comparison with NaN holds.
py_max(a, b) == IF a # NaN /\ b # NaN /\ b > a THEN b ELSE a

\* Python truthiness of a number or None: 0 is false, NaN is true.
truthy(x) == x # 0

\* timedelta.days: whole days, rounded towards minus infinity.
days_of(delta) == delta \div DAY

\* ------------------------------------------------------------ cache data
\* One value of the cache mapping.  kind "missing": the ticker is no key;
\* "scalar": a value that is no dict (a number, a list); "dict": a JSON
\* object, whose "updated" is an ISO timestamp ("iso"), text that is no
\* timestamp ("bad") or absent ("none"), and whose "ath" is a number ("num"),
\* a numeral in quotes ("numstr"), other text ("junk") or absent ("none").
Entry(kind, updK, upd, athK, ath) ==
    [kind |-> kind, updK |-> updK, upd |-> upd, athK |-> athK, ath |-> ath]
Missing == Entry("missing", "none", 0, "none", 0)
Written(ath, upd) == Entry("dict", "iso", upd, "num", ath)

EmptyMap == [t \in Tickers |-> Missing]

\* The cache as json.loads returns it: a dict ("map"), or another JSON value.
MapCache(m) == [k |-> "map", m |-> m]
ListCache == [k |-> "list", m |-> EmptyMap]

\* The cache file: absent, text that is no JSON ("garbage"), or JSON text.
AbsentFile == [k |-> "absent", v |-> MapCache(EmptyMap)]
GarbageFile == [k |-> "garbage", v |-> MapCache(EmptyMap)]
JsonFile(c) == [k |-> "json", v |-> c]

\* Python truthiness of a cache value: a missing key gives None, {} is false.
entry_truthy(e) ==
    /\ e.kind # "missing"
    /\ ~(e.kind = "dict" /\ e.updK = "none" /\ e.athK = "none")

\* float(entry["ath"]) succeeds for a number and for a numeral in quotes.
ath_parses(e) == e.athK \in {"num", "numstr"}

\* is_fresh with the threshold one day short.
is_fresh_one_day_short(e, now) ==
    /\ entry_truthy(e)
    /\ e.kind = "dict"
    /\ e.updK = "iso"
    /\ days_of(now - e.upd) < FRESH_DAYS - 1
    /\ e.athK # "none"
    /\ ath_parses(e)

\* is_fresh without a look at the ath.
is_fresh_by_age_alone(e, now) ==
    /\ entry_truthy(e)
    /\ e.kind = "dict"
    /\ e.updK = "iso"
    /\ days_of(now - e.upd) < FRESH_DAYS

\* Lines 41-47 of get_cached_ath: TRUE when the entry is returned as it is.
\* Every failure inside the try block (no "updated" key, a value that is no
\* dict, an unparseable timestamp, an ath that float() rejects) is swallowed.
is_fresh(e, now) ==
    /\ entry_truthy(e)
    /\ e.kind = "dict"
    /\ e.updK = "iso"
    /\ days_of(now - e.upd) < FRESH_DAYS
    /\ e.athK # "none"
    /\ ath_parses(e)

\* Lines 54-57 of get_cached_ath: the refreshed ATH; intraday_high is None
\* when the intraday frame is empty.
None == 0 - 2
intraday_high_of(highs) == IF ~is_empty(highs) THEN series_max(highs) ELSE None
\* refresh_fails with "or" for "and".
refresh_fails_on_either(closes, high) == is_empty(closes) \/ high = None
refresh_fails(closes, high) == is_empty(closes) /\ high = None
refreshed_ath(closes, high) ==
    py_max(IF ~is_empty(closes) THEN series_max(closes) ELSE 0,
           IF high # None /\ truthy(high) THEN high ELSE 0)

\* ------------------------------------------------------ change calculators
\* A percentage (a / b - 1) * 100 is kept as the exact fraction num / den in
\* lowest terms; Null is Python's None, Raised an exception.
RECURSIVE gcd(_, _)
gcd(a, b) == IF b = 0 THEN a ELSE gcd(b, a % b)
abs(x) == IF x < 0 THEN 0 - x ELSE x
Value(num, den) ==
    LET g == gcd(abs(num), den)
    IN  [k |-> "value", num |-> num \div g, den |-> den \div g]
Null == [k |-> "null", num |-> 0, den |-> 0]
Raised == [k |-> "raised", num |-> 0, den |-> 0]
pct(a, b) == Value((a - b) * 100, b)

\* Series.iloc[i] with Python's indexing: i counts from 0, a negative i from
\* the end; any other i is an IndexError.
iloc_in_range(s, i) == 0 - Len(s) <= i /\ i < Len(s)
iloc(s, i) == s[(IF i < 0 THEN i + Len(s) ELSE i) + 1]

min(a, b) == IF a < b THEN a ELSE b
max(a, b) == IF a > b THEN a ELSE b

\* The Provider's answer to history(period="<n>d", interval="1d"): the last
\* bars, at most n of them.
last_bars(bars, n) == SubSeq(bars, Len(bars) - min(n, Len(bars)) + 1, Len(bars))

\* past_index without the clamp.
past_index_unclamped(days, n) == 0 - days

\* Line 92: the position of the base price.
past_index(days, n) == 0 - min(days, n - 1)

\* get_change_percent that asks for one observation only.
get_change_percent_on_one(bars, days) ==
    LET hist == dropna(last_bars(bars, max(days + 5, 10)))
    IN  IF Len(hist) < 1 THEN Null
        ELSE LET now_price == iloc(hist, 0 - 1)
                 i == past_index(days, Len(hist))
             IN  IF iloc_in_range(hist, i)
                 THEN pct(now_price, iloc(hist, i))
                 ELSE Raised

\* Lines 88-93.
get_change_percent(bars, days) ==
    LET hist == dropna(last_bars(bars, max(days + 5, 10)))
    IN  IF Len(hist) < 2 THEN Null
        ELSE LET now_price == iloc(hist, 0 - 1)
                 i == past_index(days, Len(hist))
             IN  IF iloc_in_range(hist, i)
                 THEN pct(now_price, iloc(hist, i))
                 ELSE Raised

\* Lines 79-83.
get_24h_change_live(bars, current_price) ==
    LET hist == dropna(last_bars(bars, 2))
    IN  IF Len(hist) < 1 THEN Null
        ELSE pct(current_price, iloc(hist, 0 - 1))

\* Lines 99-104; bars are the daily bars since January 1.
get_ytd_change(bars) ==
    LET hist == dropna(bars)
    IN  IF is_empty(hist) THEN Null
        ELSE pct(iloc(hist, 0 - 1), iloc(hist, 0))

\* ------------------------------------------------------------------ state
VARIABLES
    clock,          \* datetime.now(TZ), in seconds
    file,           \* content of CACHE_FILE
    cache,          \* the dict main hands to get_cached_ath
    rows,           \* the records main has appended
    idx,            \* position of the asset being processed in tickers
    pc,             \* the statement about to run
    now,            \* get_cached_ath: now
    hist_all,       \* get_cached_ath: hist_all
    intraday_high,  \* get_cached_ath: intraday_high
    ath,            \* main: ath
    current,        \* main: current
    attempt,        \* get_current_price: the loop variable
    answer,         \* the column the Provider returned last, until it is used
    log,            \* Provider calls, sleeps and writes while handling the asset
    exc,            \* the message of the exception being handled
    bars,           \* the daily bars a directly called calculator is served
    changes,        \* main: change_1d, change_1w, ... as far as computed
    days,           \* argument of a direct call of a change calculator
    result          \* what that call returned

vars == <<clock, file, cache, rows, idx, pc, now, hist_all, intraday_high,
          ath, current, attempt, answer, log, exc, bars, changes, days,
          result>>

ath_locals == <<now, hist_all, intraday_high>>
calc_vars == <<bars, changes, days, result>>

\* What the log keeps of a Provider call: the query, and whether the answer
\* holds an observation (for a frame: a row).
has_data(raw) == \E k \in 1..Len(raw) : raw[k] # NaN
Closes(query, raw) == <<query, IF has_data(raw) THEN "data" ELSE "empty">>
Frame(query, raw) == <<query, IF Len(raw) # 0 THEN "data" ELSE "empty">>
Slept == <<"sleep", "">>
Saved(ok) == <<"save_cache", IF ok THEN "written" ELSE "failed">>

\* ------------------------------------------------------------ cache file
\* load_cache: an absent or unparseable file gives {}, any JSON text gives
\* its value, whatever its shape.
load_cache(f) == IF f.k = "json" THEN f.v ELSE MapCache(EmptyMap)

\* save_cache whose failure removes the file.
save_cache_unlinking(f, c, ok) == IF ok THEN {JsonFile(c)} ELSE {AbsentFile}

\* save_cache: write_text truncates the file and writes the text; a failure is
\* swallowed.  Failing to open leaves the file as it was, failing after the
\* truncation leaves text that is no JSON.
save_cache(f, c, ok) == IF ok THEN {JsonFile(c)} ELSE {f, GarbageFile}

\* Save that puts the write off.
Save_batched(c) == file' = file /\ log' = Append(log, Saved(TRUE))

\* A call save_cache(c): it succeeds, or it fails in one of the two ways.
Save(c) ==
    \E ok \in BOOLEAN :
       /\ file' \in save_cache(file, c, ok)
       /\ log' = Append(log, Saved(ok))

\* with_entry that leaves the timestamp of an entry alone.
with_entry_old_stamp(c, t, a, instant) ==
    MapCache([c.m EXCEPT ![t] =
        Written(a, IF c.m[t].updK = "iso" THEN c.m[t].upd ELSE instant)])

\* cache[ticker] = {"ath": ath, "updated": <instant>.isoformat()}
with_entry(c, t, a, instant) == MapCache([c.m EXCEPT ![t] = Written(a, instant)])

\* ------------------------------------------------------------------ Init
FreshStamp == T0 - FRESH_DAYS * DAY + 1   \* one second less than 7 days old
StaleStamp == T0 - FRESH_DAYS * DAY       \* exactly 7 days old

\* The entries a cache file may hold, in groups: fresh and stale ones as the
\* program writes them, and texts an earlier version or an editor left behind.
InitEntries ==
    <<Missing,
      Entry("dict", "none", 0, "none", 0),
      Entry("scalar", "none", 0, "none", 0),
      Entry("dict", "iso", FreshStamp, "none", 0),
      Entry("dict", "iso", FreshStamp, "junk", 0)>>
    \o [a \in Prices |-> Written(a, FreshStamp)]
    \o [a \in Prices |-> Written(a, StaleStamp)]
    \o [a \in Prices |-> Entry("dict", "bad", 0, "num", a)]
    \o [a \in Prices |-> Entry("dict", "iso", FreshStamp, "numstr", a)]

\* The mappings of the initial cache files: each takes NumTickers entries of
\* InitEntries in a row, starting anywhere.
InitMaps ==
    {[t \in Tickers |-> InitEntries[((k + t - 1) % Len(InitEntries)) + 1]] :
        k \in 1..Len(InitEntries)}

InitFiles ==
    {AbsentFile, GarbageFile, JsonFile(ListCache)}
    \cup {JsonFile(MapCache(m)) : m \in InitMaps}

Init ==
    /\ clock = T0
    /\ file \in InitFiles
    /\ cache = MapCache(EmptyMap)
    /\ rows = <<>>
    /\ idx = 0
    /\ pc = "load"
    /\ now = 0
    /\ hist_all = <<>>
    /\ intraday_high = None
    /\ ath = 0
    /\ current = 0
    /\ attempt = 0
    /\ answer = <<>>
    /\ log = <<>>
    /\ exc = ""
    /\ bars = <<>>
    /\ changes = <<>>
    /\ days = 0
    /\ result = Null

\* ------------------------------------------------------------------ main
\* Line 133, and the entry into the loop of line 144.
main_load ==
    /\ pc = "load"
    /\ cache' = load_cache(file)
    /\ idx' = 1
    /\ pc' = "ath_lookup"
    /\ UNCHANGED <<clock, file, rows, ath, current, attempt, answer, log, exc,
                   ath_locals, calc_vars>>

\* ---------------------------------------------------------- get_cached_ath
\* Lines 38-47: cache.get raises on a cache that is no dict; a fresh entry is
\* returned, anything else goes on to the refresh.
get_cached_ath_lookup ==
    /\ pc = "ath_lookup"
    /\ now' = clock
    /\ IF cache.k # "map"
       THEN /\ pc' = "except"
            /\ exc' = "AttributeError"
            /\ UNCHANGED ath
       ELSE IF is_fresh(cache.m[idx], clock)
            THEN /\ ath' = cache.m[idx].ath
                 /\ pc' = "price_try"
                 /\ UNCHANGED exc
            ELSE /\ pc' = "ath_hist"
                 /\ UNCHANGED <<ath, exc>>
    /\ UNCHANGED <<clock, file, cache, rows, idx, hist_all, intraday_high,
                   current, attempt, answer, log, calc_vars>>

\* Line 50: the max-history query.
get_cached_ath_hist ==
    /\ pc = "ath_hist"
    /\ \E closes \in RawSeries :
          /\ hist_all' = dropna(closes)
          /\ log' = Append(log, Closes("max", closes))
    /\ pc' = "ath_intraday"
    /\ UNCHANGED <<clock, file, cache, rows, idx, now, intraday_high, ath,
                   current, attempt, answer, exc, calc_vars>>

\* Lines 51-52: the 5-day intraday query; answer is the High column.
get_cached_ath_intraday ==
    /\ pc = "ath_intraday"
    /\ \E highs \in RawSeries :
          /\ answer' = highs
          /\ intraday_high' = intraday_high_of(highs)
          /\ log' = Append(log, Frame("5d/1m", highs))
    /\ pc' = "ath_store"
    /\ UNCHANGED <<clock, file, cache, rows, idx, now, hist_all, ath,
                   current, attempt, exc, calc_vars>>

\* get_cached_ath_store that writes and saves an entry before it raises.
get_cached_ath_store_writing_first ==
    /\ pc = "ath_store"
    /\ LET a == refreshed_ath(hist_all, intraday_high)
           c == with_entry(cache, idx, a, now)
       IN  /\ cache' = c
           /\ Save(c)
           /\ IF refresh_fails(hist_all, intraday_high)
              THEN /\ pc' = "except"
                   /\ exc' = "Could not refresh ATH"
                   /\ UNCHANGED ath
              ELSE /\ ath' = a
                   /\ pc' = "price_try"
                   /\ UNCHANGED exc
    /\ hist_all' = <<>>
    /\ intraday_high' = None
    /\ answer' = <<>>
    /\ UNCHANGED <<clock, rows, idx, now, current, attempt, calc_vars>>

\* Lines 54-61: raise, or write the entry, save and return.
get_cached_ath_store ==
    /\ pc = "ath_store"
    /\ IF refresh_fails(hist_all, intraday_high)
       THEN /\ pc' = "except"
            /\ exc' = "Could not refresh ATH"
            /\ UNCHANGED <<file, cache, ath, log>>
       ELSE LET a == refreshed_ath(hist_all, intraday_high)
                c == with_entry(cache, idx, a, now)
            IN  /\ cache' = c
                /\ Save(c)
                /\ ath' = a
                /\ pc' = "price_try"
                /\ UNCHANGED exc
    /\ hist_all' = <<>>
    /\ intraday_high' = None
    /\ answer' = <<>>
    /\ UNCHANGED <<clock, rows, idx, now, current, attempt, calc_vars>>

\* ------------------------------------------------------- get_current_price
\* more_attempts with one turn too many.
more_attempts_off_by_one(k) == k < ATTEMPTS

\* Line 66: the loop goes on while attempts are left.
more_attempts(k) == k + 1 < ATTEMPTS

\* Lines 67-69: one intraday attempt; a non-empty answer ends the call.
get_current_price_try ==
    /\ pc = "price_try"
    /\ \E closes \in RawSeries :
          LET intraday == dropna(closes)
          IN  /\ answer' = closes
              /\ log' = Append(log, Closes("1d/1m", closes))
              /\ IF ~is_empty(intraday)
                 THEN /\ current' = iloc(intraday, 0 - 1)
                      /\ attempt' = 0
                      /\ pc' = "compare"
                 ELSE /\ pc' = "price_sleep"
                      /\ UNCHANGED <<current, attempt>>
    /\ UNCHANGED <<clock, file, cache, rows, idx, ath, exc, ath_locals,
                   calc_vars>>

\* Line 70, and the loop test of line 66.
get_current_price_sleep ==
    /\ pc = "price_sleep"
    /\ clock' = clock + SLEEP_SECONDS
    /\ attempt' = attempt + 1
    /\ pc' = IF more_attempts(attempt) THEN "price_try" ELSE "price_daily"
    /\ answer' = <<>>
    /\ log' = Append(log, Slept)
    /\ UNCHANGED <<file, cache, rows, idx, ath, current, exc, ath_locals,
                   calc_vars>>

\* Lines 71-74: the daily fallback.
get_current_price_daily ==
    /\ pc = "price_daily"
    /\ \E closes \in RawSeries :
          LET daily == dropna(closes)
          IN  /\ answer' = closes
              /\ log' = Append(log, Closes("5d/1d", closes))
              /\ IF is_empty(daily)
                 THEN /\ pc' = "except"
                      /\ exc' = "No price data"
                      /\ UNCHANGED current
                 ELSE /\ current' = iloc(daily, 0 - 1)
                      /\ pc' = "compare"
                      /\ UNCHANGED exc
    /\ attempt' = 0
    /\ UNCHANGED <<clock, file, cache, rows, idx, ath, ath_locals, calc_vars>>

\* ------------------------------------------------------- main: one asset
\* The horizons of lines 158-162.
HORIZONS == <<7, 30, 90, 180, 365>>

\* The daily bars the Provider serves while main computes the changes.
DailyAnswers == RawSeries

\* Lines 166-178 and line 181: the record of an asset.
SuccessRow(name, cur, a, ch) ==
    [name |-> name, error |-> "", current |-> cur, ath |-> a,
     from_ath |-> pct(cur, a), changes |-> ch]
ErrorRow(name, msg) ==
    [name |-> name, error |-> msg, current |-> 0, ath |-> 0,
     from_ath |-> Null, changes |-> <<>>]

\* new_high that asks for a margin.
new_high_by_a_margin(cur, a) == cur > a + 1

\* Line 148.
new_high(cur, a) == cur > a

\* Lines 148-154: a live price above the ATH replaces it, with a timestamp of
\* its own, and is saved; current / ath raises on a zero ath.
main_compare ==
    /\ pc = "compare"
    /\ IF new_high(current, ath)
       THEN LET c == with_entry(cache, idx, current, clock)
            IN  /\ ath' = current
                /\ cache' = c
                /\ Save(c)
       ELSE UNCHANGED <<ath, cache, file, log>>
    /\ IF ath' = 0
       THEN pc' = "except" /\ exc' = "ZeroDivisionError"
       ELSE pc' = "changes" /\ UNCHANGED exc
    /\ answer' = <<>>
    /\ UNCHANGED <<clock, rows, idx, current, attempt, ath_locals, calc_vars>>

\* Lines 157-163: the seven changes.  The Provider serves them from one
\* series of daily bars, of which the last since_jan1 are of this year.
changes_of(b, since_jan1, cur) ==
    <<get_24h_change_live(b, cur)>>
    \o [h \in 1..Len(HORIZONS) |-> get_change_percent(b, HORIZONS[h])]
    \o <<get_ytd_change(last_bars(b, since_jan1))>>

main_changes ==
    /\ pc = "changes"
    /\ \E b \in DailyAnswers, n \in 0..MaxBars :
          /\ n <= Len(b)
          /\ changes' = changes_of(b, n, current)
    /\ IF \E k \in 1..Len(changes') : changes'[k] = Raised
       THEN pc' = "except" /\ exc' = "IndexError"
       ELSE pc' = "append" /\ UNCHANGED exc
    /\ UNCHANGED <<clock, file, cache, rows, idx, ath, current, attempt,
                   answer, log, ath_locals, bars, days, result>>

\* Line 144: the next asset, or the end of the loop.
next_pc(i) == IF i = NumTickers THEN "report" ELSE "ath_lookup"

\* Lines 166-178, and the next turn of the loop.
main_append ==
    /\ pc = "append"
    /\ rows' = Append(rows, SuccessRow(idx, current, ath, changes))
    /\ idx' = idx + 1
    /\ pc' = next_pc(idx)
    /\ ath' = 0 /\ current' = 0 /\ now' = 0 /\ log' = <<>>
    /\ changes' = <<>>
    /\ UNCHANGED <<clock, file, cache, attempt, answer, exc, hist_all,
                   intraday_high, bars, days, result>>

\* main_except that lets the exception end the loop.
main_except_aborting ==
    /\ pc = "except"
    /\ rows' = Append(rows, ErrorRow(idx, exc))
    /\ pc' = "report"
    /\ ath' = 0 /\ current' = 0 /\ now' = 0 /\ log' = <<>>
    /\ changes' = <<>> /\ exc' = "" /\ answer' = <<>>
    /\ UNCHANGED <<clock, file, cache, idx, attempt, hist_all, intraday_high,
                   bars, days, result>>

\* Lines 180-181, and the next turn of the loop.
main_except ==
    /\ pc = "except"
    /\ rows' = Append(rows, ErrorRow(idx, exc))
    /\ idx' = idx + 1
    /\ pc' = next_pc(idx)
    /\ ath' = 0 /\ current' = 0 /\ now' = 0 /\ log' = <<>>
    /\ changes' = <<>> /\ exc' = "" /\ answer' = <<>>
    /\ UNCHANGED <<clock, file, cache, attempt, hist_all, intraday_high,
                   bars, days, result>>

\* Lines 183-236: max() of line 183 raises on an empty sequence, which
\* nothing catches; otherwise the report is rendered and written.
main_report ==
    /\ pc = "report"
    /\ pc' = IF \A k \in 1..Len(rows) : rows[k].error # ""
             THEN "crashed" ELSE "done"
    /\ UNCHANGED <<clock, file, cache, rows, idx, ath, current, attempt,
                   answer, log, exc, ath_locals, calc_vars>>

\* ------------------------------------------- direct calls of the calculators
\* The calculators are functions of the Provider's answer and their argument;
\* a direct call takes both from InitCalc.
CalcSeries == UNION {[1..n -> Prices \cup {NaN}] : n \in 0..MaxObs}
CalcDays == (0 - MaxDays)..MaxDays

InitCalc ==
    /\ clock = T0
    /\ file = AbsentFile
    /\ cache = MapCache(EmptyMap)
    /\ rows = <<>>
    /\ idx = 0
    /\ pc = "call"
    /\ now = 0
    /\ hist_all = <<>>
    /\ intraday_high = None
    /\ ath = 0
    /\ current \in Prices
    /\ attempt = 0
    /\ answer = <<>>
    /\ log = <<>>
    /\ exc = ""
    /\ bars \in CalcSeries
    /\ changes = <<>>
    /\ days \in CalcDays
    /\ result = Null

Returns(label, value) ==
    /\ pc = "call"
    /\ pc' = label
    /\ result' = value
    /\ UNCHANGED <<clock, file, cache, rows, idx, ath, current, attempt,
                   answer, log, exc, ath_locals, bars, changes, days>>

call_get_change_percent ==
    Returns("get_change_percent", get_change_percent(bars, days))

call_get_24h_change_live ==
    Returns("get_24h_change_live", get_24h_change_live(bars, current))

call_get_ytd_change ==
    Returns("get_ytd_change", get_ytd_change(bars))

NextCalc ==
    \/ call_get_change_percent
    \/ call_get_24h_change_live
    \/ call_get_ytd_change

SpecCalc == InitCalc /\ [][NextCalc]_vars

\* ------------------------------------------------------------ a whole run
Next ==
    \/ main_load
    \/ get_cached_ath_lookup
    \/ get_cached_ath_hist
    \/ get_cached_ath_intraday
    \/ get_cached_ath_store
    \/ get_current_price_try
    \/ get_current_price_sleep
    \/ get_current_price_daily
    \/ main_compare
    \/ main_changes
    \/ main_append
    \/ main_except
    \/ main_report

Spec == Init /\ [][Next]_vars

\* A run up to the end of its first asset: every cache file of InitFiles and
\* every Provider answer.
FirstAsset == idx <= 1
NextAsset ==
    \/ main_load
    \/ FirstAsset /\ get_cached_ath_lookup
    \/ FirstAsset /\ get_cached_ath_hist
    \/ FirstAsset /\ get_cached_ath_intraday
    \/ FirstAsset /\ get_cached_ath_store
    \/ FirstAsset /\ get_current_price_try
    \/ FirstAsset /\ get_current_price_sleep
    \/ FirstAsset /\ get_current_price_daily
    \/ FirstAsset /\ main_compare
    \/ FirstAsset /\ main_changes
    \/ FirstAsset /\ main_append
    \/ FirstAsset /\ main_except

SpecAsset == Init /\ [][NextAsset]_vars

\* A whole run over a choice of cache files and Provider answers: no file, a
\* JSON list, and a mapping with a fresh, a stale and a missing entry; each
\* query answered with nothing or with a single bar; no daily bars for the
\* changes.
RunMap ==
    [t \in Tickers |->
        IF t = 1 THEN Written(1, FreshStamp)
        ELSE IF t = 2 THEN Written(MaxPrice, StaleStamp)
        ELSE Missing]
RunFiles == {AbsentFile, JsonFile(ListCache), JsonFile(MapCache(RunMap))}
RunAnswers == {<<>>, <<MaxPrice>>}
InitRun == Init /\ file \in RunFiles
NextRun ==
    \/ main_load
    \/ get_cached_ath_lookup
    \/ get_cached_ath_hist /\ hist_all' \in RunAnswers
    \/ get_cached_ath_intraday /\ answer' \in RunAnswers
    \/ get_cached_ath_store
    \/ get_current_price_try /\ answer' \in RunAnswers
    \/ get_current_price_sleep
    \/ get_current_price_daily /\ answer' \in RunAnswers
    \/ main_compare
    \/ main_changes /\ \A k \in 1..Len(changes') : changes'[k] = Null
    \/ main_append
    \/ main_except
    \/ main_report

SpecRun == InitRun /\ [][NextRun]_vars

\* ================================================================ claims
\* The part of the log get_current_price wrote.
PriceLog == SelectSeq(log, LAMBDA e : e[1] \in {"1d/1m", "5d/1d", "sleep"})
Queries(sq, q) == Cardinality({k \in 1..Len(sq) : sq[k][1] = q})

\* The most recent observation of a Provider column.
LastObs(raw) ==
    raw[CHOOSE k \in 1..Len(raw) :
            raw[k] # NaN /\ \A j \in (k + 1)..Len(raw) : raw[j] = NaN]

\* An entry less than 7 days old whose ath parses as a number.
FreshAsClaimed(e, t) ==
    /\ e.kind = "dict"
    /\ e.updK = "iso" /\ t - e.upd < FRESH_DAYS * DAY
    /\ e.athK \in {"num", "numstr"}

\* An entry that is missing, 7 or more days old, or corrupt.
NeedsRefresh(e, t) ==
    \/ e.kind \in {"missing", "scalar"}
    \/ e.kind = "dict" /\ e.updK # "iso"
    \/ e.kind = "dict" /\ e.updK = "iso" /\ t - e.upd >= FRESH_DAYS * DAY
    \/ e.kind = "dict" /\ e.athK \in {"none", "junk"}

\* C1: every write to a ticker's cache entry stores an ath greater than or
\* equal to the ath of the well-formed entry it replaces.
C1_AthNeverDecreases ==
    [][\A t \in Tickers :
          (/\ cache.k = "map" /\ cache'.k = "map"
           /\ cache.m[t].kind = "dict"
           /\ cache.m[t].updK = "iso" /\ cache.m[t].athK = "num"
           /\ cache'.m[t] # cache.m[t])
          => cache'.m[t].ath >= cache.m[t].ath]_vars

\* C2, as claimed: when the live price is above the ATH get_cached_ath
\* returned, the entry becomes {ath: price, updated: this instant} and the
\* file holds the cache.
C2_LiveHighPersisted ==
    [][(pc = "compare" /\ current > ath)
          => /\ cache'.m[idx] = Written(current, clock)
             /\ file' = JsonFile(cache')]_vars

\* C2, amended: when the live price is above the ATH get_cached_ath returned,
\* the entry becomes {ath: price, updated: this instant}, no other entry
\* changes, and save_cache is called once with the cache: the file holds
\* the cache unless that write fails.
C2_LiveHighWritten ==
    [][(pc = "compare" /\ current > ath)
          => /\ cache'.k = "map"
             /\ cache'.m = [cache.m EXCEPT ![idx] = Written(current, clock)]
             /\ ath' = current
             /\ \E ok \in BOOLEAN : log' = Append(log, Saved(ok))
             /\ log'[Len(log')] = Saved(TRUE) => file' = JsonFile(cache')]_vars

\* C2 witness: an entry refreshed a moment ago is replaced by a higher live
\* price, under a later timestamp, and written.
C2_Witness ==
    /\ pc = "changes"
    /\ Len(log) > 3 /\ log[1][1] = "max" /\ log[3] = Saved(TRUE)
    /\ log[Len(log)] = Saved(TRUE)
    /\ clock > now
    /\ cache.m[idx] = Written(current, clock)
    /\ file = JsonFile(cache)

\* C3: a fresh entry with a parseable ath is returned by get_cached_ath with
\* no Provider call, and neither the cache nor the file changes.
C3_FreshReturned ==
    [][(pc = "ath_lookup" /\ cache.k = "map"
        /\ FreshAsClaimed(cache.m[idx], clock))
          => /\ pc' = "price_try"
             /\ ath' = cache.m[idx].ath
             /\ log' = <<>>
             /\ cache' = cache
             /\ file' = file]_vars

\* C3 witness: get_cached_ath has returned the ath of a fresh entry that
\* holds it as a numeral in quotes.
C3_Witness ==
    /\ pc = "price_try" /\ log = <<>>
    /\ cache.k = "map"
    /\ FreshAsClaimed(cache.m[idx], now)
    /\ cache.m[idx].athK = "numstr"
    /\ ath = cache.m[idx].ath /\ ath = MaxPrice
    /\ file = JsonFile(cache)

\* C4: a missing, 7 or more days old, or corrupt entry makes get_cached_ath
\* run one refresh cycle: it does not raise at the lookup, makes one
\* max-history query, then one 5-day intraday query, and on success writes
\* the entry once, with one call of save_cache.
C4_OneRefreshCycle ==
    [][/\ (pc = "ath_lookup" /\ cache.k = "map"
           /\ NeedsRefresh(cache.m[idx], clock))
          => (pc' = "ath_hist" /\ log' = <<>> /\ cache' = cache)
       /\ pc = "ath_hist"
          => /\ pc' = "ath_intraday"
             /\ Len(log') = 1 /\ log'[1][1] = "max"
             /\ cache' = cache
       /\ pc = "ath_intraday"
          => /\ pc' = "ath_store"
             /\ Len(log') = 2 /\ log'[1] = log[1] /\ log'[2][1] = "5d/1m"
             /\ cache' = cache
       /\ pc = "ath_store"
          => \/ /\ pc' = "price_try"
                /\ log' = Append(log, log'[3])
                /\ log'[3][1] = "save_cache"
                /\ cache'.m = [cache.m EXCEPT ![idx] = Written(ath', now)]
             \/ /\ pc' = "except" /\ exc' = "Could not refresh ATH"
                /\ UNCHANGED <<cache, file, log>>]_vars

\* C4 witness: a refresh cycle has run to its end from an entry without a
\* usable timestamp, and the entry is written.
C4_Witness ==
    /\ pc = "price_try"
    /\ log = <<<<"max", "data">>, <<"5d/1m", "data">>, Saved(TRUE)>>
    /\ cache.m[idx] = Written(ath, now)
    /\ file = JsonFile(cache)
    /\ \E m \in InitMaps :
          /\ m[idx].kind = "dict" /\ m[idx].updK = "bad"
          /\ \A t \in Tickers \ {idx} : m[t] = cache.m[t]

\* The observations of a Provider column.
ObsSet(raw) == {raw[k] : k \in 1..Len(raw)} \ {NaN}

PriceQueries == SelectSeq(PriceLog, LAMBDA e : e[1] # "sleep")

\* C6: get_current_price makes at most 2 intraday queries and at most 1
\* daily query, 3 Provider calls at most; the daily query comes only after
\* two empty intraday answers; the call returns the most recent close of the
\* first answer with data, and it is never stuck.
C6_PriceFetchBounded ==
    /\ Queries(PriceQueries, "1d/1m") <= 2
    /\ Queries(PriceQueries, "5d/1d") <= 1
    /\ Len(PriceQueries) <= 3
    /\ \A k \in 1..Len(PriceQueries) :
          /\ PriceQueries[k][1] = "5d/1d"
             => /\ k = 3
                /\ PriceQueries[1] = <<"1d/1m", "empty">>
                /\ PriceQueries[2] = <<"1d/1m", "empty">>
          /\ k < Len(PriceQueries) => PriceQueries[k][2] = "empty"
    /\ pc = "compare"
          => /\ PriceQueries[Len(PriceQueries)][2] = "data"
             /\ has_data(answer)
             /\ current = LastObs(answer)
    /\ pc = "price_try" => ENABLED get_current_price_try
    /\ pc = "price_sleep" => ENABLED get_current_price_sleep
    /\ pc = "price_daily" => ENABLED get_current_price_daily

\* C6 witness: the price came from the daily query, after two empty intraday
\* attempts, out of an answer that ends with a missing close.
C6_Witness ==
    /\ pc = "compare"
    /\ Len(PriceQueries) = 3
    /\ PriceQueries[3] = <<"5d/1d", "data">>
    /\ Len(answer) = MaxBars /\ answer[Len(answer)] = NaN
    /\ current = answer[1]

\* The three queries of a price fetch, all of them answered with nothing.
AllEmpty ==
    <<<<"1d/1m", "empty">>, <<"1d/1m", "empty">>, <<"5d/1d", "empty">>>>

\* C7: get_current_price raises exactly when the two intraday attempts and
\* the daily query all came back empty; otherwise it returns a price.
C7_RaisesIffAllEmpty ==
    /\ (pc = "except" /\ exc = "No price data") => PriceQueries = AllEmpty
    /\ PriceQueries = AllEmpty => (pc = "except" /\ exc = "No price data")
    /\ (\E k \in 1..Len(PriceQueries) : PriceQueries[k][2] = "data")
          => /\ pc \notin {"price_try", "price_sleep", "price_daily"}
             /\ exc # "No price data"
             /\ current \in Prices

\* C7 witness: the price fetch has raised after three empty answers, with a
\* pause after each intraday attempt.
C7_Witness ==
    /\ pc = "except" /\ exc = "No price data"
    /\ Len(PriceLog) = 5
    /\ PriceLog[2] = Slept /\ PriceLog[4] = Slept
    /\ clock = T0 + 2 * SLEEP_SECONDS

\* The number of daily observations in a Provider answer.
Obs(b) == Cardinality({k \in 1..Len(b) : b[k] # NaN})

\* The oldest observation of a Provider column.
FirstObs(raw) ==
    raw[CHOOSE k \in 1..Len(raw) :
            raw[k] # NaN /\ \A j \in 1..(k - 1) : raw[j] = NaN]

\* C8: with 0 or 1 daily observations, whatever the days argument,
\* get_change_percent returns the null marker and does not raise.
C8_TooFewGivesNull ==
    (pc = "get_change_percent" /\ Obs(bars) < 2) => result = Null

\* C8 witness: a call over a long answer that holds one observation only
\* has returned the null marker.
C8_Witness ==
    /\ pc = "get_change_percent"
    /\ Len(bars) = MaxObs /\ Obs(bars) = 1
    /\ days = MaxDays
    /\ result = Null

\* C9: when days exceeds the number of observations minus one,
\* get_change_percent takes the oldest observation as the base price.
C9_ClampedBaseIsOldest ==
    (pc = "get_change_percent" /\ Obs(bars) >= 2 /\ days > Obs(bars) - 1)
        => result = pct(LastObs(bars), FirstObs(bars))

\* C10: for days >= 1 and 2 or more observations the lookback position is
\* inside the series: get_change_percent returns a value, it neither raises
\* nor returns the null marker.
C10_LookbackInRange ==
    (pc = "get_change_percent" /\ days >= 1 /\ Obs(bars) >= 2)
        => /\ iloc_in_range(dropna(bars), past_index(days, Obs(bars)))
           /\ result # Raised
           /\ result.k = "value"

\* C10 witness: a lookback far beyond the two observations there are has
\* returned a value.
C10_Witness ==
    /\ pc = "get_change_percent"
    /\ days = MaxDays /\ Obs(bars) = 2
    /\ days > Obs(bars) - 1
    /\ result.k = "value"

\* C11: get_ytd_change returns the null marker when the year has 0 or 1
\* daily closes, and otherwise the percent change from the first close of
\* the year to the last.
C11_YtdNullBelowTwo ==
    pc = "get_ytd_change"
        => IF Obs(bars) < 2
           THEN result = Null
           ELSE result = pct(LastObs(bars), FirstObs(bars))

\* The observation before the most recent one.
SecondLastObs(raw) == dropna(raw)[Obs(raw) - 1]

\* C17: with days = 1 and 2 or more observations, get_change_percent returns
\* the change from the second most recent close to the most recent one.
C17_OneDayBaseIsPreviousClose ==
    (pc = "get_change_percent" /\ days = 1 /\ Obs(bars) >= 2)
        => result = pct(LastObs(bars), SecondLastObs(bars))

\* C18: get_current_price waits at most once, and every wait is followed by
\* another intraday query, never by the daily query.
C18_WaitOnlyBeforeRetry ==
    /\ Queries(PriceLog, "sleep") <= 1
    /\ \A k \in 1..(Len(PriceLog) - 1) :
          PriceLog[k] = Slept => PriceLog[k + 1][1] = "1d/1m"

\* C20: when the refresh of get_cached_ath raises for want of data, the
\* cache is still the one loaded from the file, the file is still the one
\* the run started with, and save_cache has not been called.
C20_FailedRefreshLeavesCache ==
    (pc = "except" /\ exc = "Could not refresh ATH")
        => /\ file \in InitFiles
           /\ cache = load_cache(file)
           /\ \A k \in 1..Len(log) : log[k][1] # "save_cache"

\* C20 witness: the refresh of a stale entry has raised, and the entry is
\* still in the cache and in the file.
C20_Witness ==
    /\ pc = "except" /\ exc = "Could not refresh ATH"
    /\ log = <<<<"max", "empty">>, <<"5d/1m", "empty">>>>
    /\ cache.m[idx] = Written(MaxPrice, StaleStamp)
    /\ file = JsonFile(cache)

C14_BadFileIsEmptyCache ==
    /\ (idx = 1 /\ pc = "ath_lookup"
        /\ file \in {AbsentFile, GarbageFile, JsonFile(ListCache)})
          => cache = MapCache(EmptyMap)
    /\ exc # "AttributeError"

\* No save_cache call of the asset in hand has failed.
NoWriteFailed == \A k \in 1..Len(log) : log[k] # Saved(FALSE)

\* C15: while no write fails, the file decodes to the in-memory cache at
\* every Provider call of the first asset and at the end of its processing,
\* every mutation of the cache having been saved in between.
C15_WriteThrough ==
    (idx = 1 /\ NoWriteFailed
     /\ pc \in {"ath_hist", "ath_intraday", "price_try", "price_daily",
                "changes", "append", "except"})
        => load_cache(file) = cache

\* C15 witness: the asset's processing ends after a refresh and a live-price
\* update, both saved, and the file holds the cache.
C15_Witness ==
    /\ idx = 1 /\ pc = "append"
    /\ NoWriteFailed
    /\ Cardinality({k \in 1..Len(log) : log[k] = Saved(TRUE)}) = 2
    /\ file = JsonFile(cache)
    /\ cache.m[idx] = Written(current, clock)

\* A step in which save_cache is called and its write fails.
WriteFails == log' = Append(log, Saved(FALSE))

\* What a save_cache call leaves behind whether or not its write succeeds:
\* no exception, the new entry in the cache, the ath that goes into the
\* record.
SaveOutcome ==
    /\ pc' = (IF pc = "ath_store" THEN "price_try" ELSE "changes")
    /\ exc' = exc /\ rows' = rows /\ current' = current
    /\ ath' = (IF pc = "ath_store"
               THEN SetMax(ObsSet(hist_all) \cup ObsSet(answer) \cup {0})
               ELSE current)
    /\ cache'.m = [cache.m EXCEPT ![idx] =
                      Written(ath', IF pc = "ath_store" THEN now ELSE clock)]

\* C16, as claimed: a failed write of the cache file raises nothing, the
\* cache keeps the new entry, the asset goes on as after a successful write,
\* and the file keeps its previous content.
C16_FailedWriteKeepsFile ==
    [][WriteFails => (SaveOutcome /\ file' = file)]_vars

\* C16, amended: a failed write of the cache file raises nothing, the cache
\* keeps the new entry, the asset goes on as after a successful write, and
\* the file keeps its previous content or is left truncated.
C16_FailedWriteSwallowed ==
    [][/\ WriteFails => (SaveOutcome /\ file' \in {file, GarbageFile})
       /\ log' = Append(log, Saved(TRUE)) => SaveOutcome]_vars

\* C16 witness: the write of a refreshed entry failed, the cache holds the
\* entry, the file still holds the older cache, and the asset has gone on to
\* its record.
C16_Witness ==
    /\ idx = 1 /\ pc = "append"
    /\ Len(log) > 2 /\ log[3] = Saved(FALSE)
    /\ cache.m[idx] = Written(ath, now)
    /\ file.k = "json" /\ file # JsonFile(cache)

\* C12: each asset gets exactly one record, a success or an error, appended
\* in the order of the asset list; after an error the loop goes on with the
\* next asset, and it ends with one record per asset.
C12_OneRecordPerAsset ==
    [][/\ pc \in {"append", "except"}
          => /\ Len(rows') = Len(rows) + 1
             /\ SubSeq(rows', 1, Len(rows)) = rows
             /\ rows'[Len(rows')].name = idx
             /\ (rows'[Len(rows')].error # "") <=> (pc = "except")
             /\ idx' = idx + 1
             /\ pc' = (IF idx < NumTickers THEN "ath_lookup" ELSE "report")
       /\ pc \notin {"append", "except"} => rows' = rows
       /\ pc' = "report"
          => /\ Len(rows') = NumTickers
             /\ \A k \in 1..NumTickers : rows'[k].name = k]_vars

\* C12 witness: the loop has ended with an error record, a success record
\* and another error record, in the order of the assets.
C12_Witness ==
    /\ pc = "report"
    /\ Len(rows) = NumTickers
    /\ rows[1].error = "No price data"
    /\ rows[2].error = ""
    /\ rows[3].error = "Could not refresh ATH"

\* C13: whatever assets fail for want of Provider data, all of them
\* included, main does not end in an uncaught exception.
C13_RunNeverAborts ==
    (\A k \in 1..Len(rows) :
        rows[k].error \in {"", "No price data", "Could not refresh ATH"})
        => pc # "crashed"

====
